---------------------------- MODULE Spec2Model ----------------------------
(***************************************************************************)
(* A model of the tokenizer of src/src/lexer.rs: the Lexer (a Chars        *)
(* iterator over the source text plus a position counter), the single-step *)
(* extraction next_token with its helpers lookahead and read_string, and   *)
(* the loop of tokenize.                                                   *)
(*                                                                         *)
(* A character is a one-character string, a text a sequence of characters. *)
(* The Chars iterator `input` is modelled by the text it was made from     *)
(* (source) and the number of characters it has yielded (iter).            *)
(***************************************************************************)
EXTENDS Integers, Sequences, FiniteSets, TLC

VARIABLES
    source,           \* the text given to Lexer::new (immutable)
    iter,             \* characters yielded so far by self.input
    position,         \* the field Lexer.position
    tokens,           \* the Vec<Token> of tokenize
    spans,            \* history: for each pushed token, <<iter before, iter after>> its next_token call
    calls,            \* history: number of next_token invocations so far
    pc,               \* "run" (in the loop of tokenize), "done" (tokenize returned), "panic"
    overflow_checks   \* the build: TRUE panics on i32 overflow, FALSE wraps

vars == <<source, iter, position, tokens, spans, calls, pc, overflow_checks>>

----------------------------------------------------------------------------
(* Bounds of the model *)

MaxLen == 3        \* length of the texts over Alphabet
MaxDigits == 10    \* length of the texts of digits
MaxName == 5       \* length of the texts over NameAlphabet
MaxEq == 5         \* length of the texts over EqAlphabet
MaxSpaces == 2     \* spaces inserted at one place when comparing two texts

(* i32, the payload of Token::Number *)
I32Max == 2147483647
I32Min == -I32Max - 1

----------------------------------------------------------------------------
(* Characters *)

DigitChars == <<"0", "1", "2", "3", "4", "5", "6", "7", "8", "9">>
Digit == {DigitChars[k] : k \in 1..10}
Lower == {"a", "b", "c", "d", "e", "f", "g", "h", "i", "j", "k", "l", "m",
          "n", "o", "p", "q", "r", "s", "t", "u", "v", "w", "x", "y", "z"}
Upper == {"A", "B", "C", "D", "E", "F", "G", "H", "I", "J", "K", "L", "M",
          "N", "O", "P", "Q", "R", "S", "T", "U", "V", "W", "X", "Y", "Z"}

\* char::to_digit(10) on a digit
to_digit(c) == (CHOOSE k \in 1..10 : DigitChars[k] = c) - 1

\* char::is_alphanumeric, on the ASCII characters
is_alphanumeric(c) == c \in Lower \cup Upper \cup Digit

----------------------------------------------------------------------------
(* Tokens *)

Number(v) == [type |-> "Number", value |-> v, name |-> <<>>]
Id(n) == [type |-> "Id", value |-> 0, name |-> n]
Plain(t) == [type |-> t, value |-> 0, name |-> <<>>]
NoToken == Plain("")

----------------------------------------------------------------------------
(* i32 arithmetic, computed without leaving the i32 range *)

\* a + b wrapped to i32 (two's complement)
WrapAdd(a, b) ==
    IF a >= 0 /\ b >= 0 /\ a > I32Max - b THEN (a + I32Min) + (b + I32Min)
    ELSE IF a < 0 /\ b < 0 /\ a < I32Min - b THEN (a - I32Min) + (b - I32Min)
    ELSE a + b

\* total * 10 wrapped to i32
WrapMul10(total) ==
    LET x2 == WrapAdd(total, total)
        x4 == WrapAdd(x2, x2)
        x8 == WrapAdd(x4, x4)
    IN  WrapAdd(x8, x2)

\* whether total * 10 + num leaves i32 (at the product or at the sum)
Overflows(total, num) ==
    \/ total > I32Max \div 10
    \/ total < -(I32Max \div 10)
    \/ total * 10 > I32Max - num

\* Accumulate with the scaling by ten forgotten
AccumulateNoScale(total, num) == WrapAdd(total, num)

\* total = total * 10 + num as i32, in a build that wraps
Accumulate(total, num) == WrapAdd(WrapMul10(total), num)

----------------------------------------------------------------------------
(* The Chars iterator *)

\* self.input.next(): the next character, if any, and the iterator after it
CharsNext(s, it) ==
    IF it < Len(s) THEN [some |-> TRUE, ch |-> s[it + 1], iter |-> it + 1]
    ELSE [some |-> FALSE, ch |-> "", iter |-> it]

\* self.input.clone(): a copy of the iterator
CharsClone(s, it) == it

\* lookahead reporting the character after the next one
lookaheadSkipping(s, it) ==
    LET r == CharsNext(s, CharsNext(s, it).iter)
    IN  [some |-> r.some, ch |-> r.ch]

\* lookahead: next() on a clone of the iterator; the iterator itself is not touched
lookahead(s, it) ==
    LET r == CharsNext(s, CharsClone(s, it))
    IN  [some |-> r.some, ch |-> r.ch]


----------------------------------------------------------------------------
(* The loops of next_token and read_string *)

\* while let Some(ch) = self.input.clone().next(): accumulate the digits that follow.
\* The sum is computed before the digit is consumed, so an overflow-checked
\* build panics with the digit still unread.
DigitLoop(s, it, total, checks) ==
    LET loop[i \in Nat, t \in Int] ==
            LET la == CharsNext(s, CharsClone(s, i))
            IN  IF la.some /\ la.ch \in Digit
                THEN IF checks /\ Overflows(t, to_digit(la.ch))
                     THEN [panic |-> TRUE, total |-> t, iter |-> i]
                     ELSE loop[CharsNext(s, i).iter, Accumulate(t, to_digit(la.ch))]
                ELSE [panic |-> FALSE, total |-> t, iter |-> i]
    IN  loop[it, total]

RECURSIVE ReadLoopAlphabetic(_, _, _)
\* the loop of read_string accepting letters only
ReadLoopAlphabetic(s, it, str) ==
    LET la == lookahead(s, it)
    IN  IF la.some /\ la.ch \in Lower \cup Upper
        THEN ReadLoopAlphabetic(s, CharsNext(s, it).iter, Append(str, la.ch))
        ELSE [str |-> str, iter |-> it]

RECURSIVE ReadLoop(_, _, _)
\* while let Some(char) = self.lookahead(): push and consume the alphanumeric characters
ReadLoop(s, it, str) ==
    LET la == lookahead(s, it)
    IN  IF la.some /\ is_alphanumeric(la.ch)
        THEN ReadLoop(s, CharsNext(s, it).iter, Append(str, la.ch))
        ELSE [str |-> str, iter |-> it]

\* read_string: the alphanumeric characters that follow, and the iterator after them
read_string(s, it) == ReadLoop(s, it, <<>>)

\* Keyword deciding on the first letters of the name
KeywordByPrefix(id) ==
    IF Len(id) >= 2 /\ SubSeq(id, 1, 2) = <<"i", "f">> THEN Plain("If")
    ELSE IF Len(id) >= 4 /\ SubSeq(id, 1, 4) = <<"e", "l", "s", "e">> THEN Plain("Else")
    ELSE Id(id)

\* match id.as_str(): the keyword table
Keyword(id) ==
    IF id = <<"i", "f">> THEN Plain("If")
    ELSE IF id = <<"e", "l", "s", "e">> THEN Plain("Else")
    ELSE Id(id)

----------------------------------------------------------------------------
(* The arms of the match of next_token. Each is given the iterator after  *)
(* the first character c was consumed and answers what the call returns:  *)
(* ret is "Some" (a token), "None", "Recurse" (the result of a further    *)
(* call of next_token) or "Panic".                                        *)

Ret(ret, tok, it) == [ret |-> ret, tok |-> tok, iter |-> it]

\* '0'..='9'
DigitArm(s, it, c, checks) ==
    LET r == DigitLoop(s, it, to_digit(c), checks)
    IN  IF r.panic THEN Ret("Panic", NoToken, r.iter)
        ELSE Ret("Some", Number(r.total), r.iter)

\* 'a'..='z'
NameArm(s, it, c) ==
    LET r == read_string(s, it)
    IN  Ret("Some", Keyword(<<c>> \o r.str), r.iter)

\* the one-character tokens
SingleToken(c) ==
    CASE c = "+" -> Plain("Plus")
      [] c = "-" -> Plain("Minus")
      [] c = "*" -> Plain("Multiply")
      [] c = "/" -> Plain("Divide")
      [] c = "(" -> Plain("Lparen")
      [] c = ")" -> Plain("Rparen")
      [] c = "{" -> Plain("CurlyL")
      [] c = "}" -> Plain("CurlyR")
      [] c = "!" -> Plain("Not")
Single == {"+", "-", "*", "/", "(", ")", "{", "}", "!"}
SingleArm(s, it, c) == Ret("Some", SingleToken(c), it)

\* the space arm recursing with the space still unread
SpaceArmUnread(s, it) == Ret("Recurse", NoToken, it - 1)

\* the space arm ending the scan
SpaceArmStop(s, it) == Ret("None", NoToken, it)

\* ' ' => self.next_token()
SpaceArm(s, it) == Ret("Recurse", NoToken, it)

\* the arms that peek: on the wanted character consume it and return `two`,
\* otherwise return `one` (or None when there is no such token)
PeekArm(s, it, want, two, one) ==
    LET la == lookahead(s, it)
    IN  IF la.some /\ la.ch = want
        THEN Ret("Some", Plain(two), CharsNext(s, it).iter)
        ELSE IF one = "" THEN Ret("None", NoToken, it)
        ELSE Ret("Some", Plain(one), it)

\* the '=' arm without the pairing: every '=' is an Assign
AssignArmLone(s, it) == Ret("Some", Plain("Assign"), it)

\* '='
AssignArm(s, it) == PeekArm(s, it, "=", "Equals", "Assign")
\* the '<' arm consuming the peeked character whatever it is
SmallerArmEager(s, it) ==
    LET la == lookahead(s, it)
    IN  Ret("Some", Plain(IF la.some /\ la.ch = "=" THEN "SmallerEquals" ELSE "SmallerThan"),
            CharsNext(s, it).iter)

\* '<'
SmallerArm(s, it) == PeekArm(s, it, "=", "SmallerEquals", "SmallerThan")
\* '>'
GreaterArm(s, it) == PeekArm(s, it, "=", "GreaterEquals", "GreaterThan")
\* '&'
AndArm(s, it) == PeekArm(s, it, "&", "And", "")
\* '|'
OrArm(s, it) == PeekArm(s, it, "|", "Or", "")
\* the last arm skipping the character as if it were a space
OtherArmSkip(s, it) == Ret("Recurse", NoToken, it)

\* _ => None
OtherArm(s, it) == Ret("None", NoToken, it)

\* the characters with an arm of their own
Known == Digit \cup Lower \cup Single \cup {" ", "=", "<", ">", "&", "|"}

\* One invocation of next_token from iterator it and position pos: what it
\* returns and the iterator and position it leaves.
next_token(s, it, pos, checks) ==
    LET n == CharsNext(s, it)
        c == n.ch
        r == CASE c \in Digit -> DigitArm(s, n.iter, c, checks)
               [] c \in Lower -> NameArm(s, n.iter, c)
               [] c \in Single -> SingleArm(s, n.iter, c)
               [] c = " " -> SpaceArm(s, n.iter)
               [] c = "=" -> AssignArm(s, n.iter)
               [] c = "<" -> SmallerArm(s, n.iter)
               [] c = ">" -> GreaterArm(s, n.iter)
               [] c = "&" -> AndArm(s, n.iter)
               [] c = "|" -> OrArm(s, n.iter)
               [] OTHER -> OtherArm(s, n.iter)
    IN  IF n.some
        THEN [ret |-> r.ret, tok |-> r.tok, iter |-> r.iter, position |-> pos + 1]
        ELSE [ret |-> "None", tok |-> NoToken, iter |-> it, position |-> pos]

RECURSIVE TokenizeFrom(_, _, _, _, _)
\* the loop of tokenize run to its end from a lexer state: how it ends and
\* the tokens pushed
TokenizeFrom(s, it, pos, acc, checks) ==
    LET r == next_token(s, it, pos, checks)
    IN  CASE r.ret = "Some" -> TokenizeFrom(s, r.iter, r.position, Append(acc, r.tok), checks)
          [] r.ret = "Recurse" -> TokenizeFrom(s, r.iter, r.position, acc, checks)
          [] r.ret = "None" -> [pc |-> "done", tokens |-> acc]
          [] r.ret = "Panic" -> [pc |-> "panic", tokens |-> acc]

\* Lexer::new(s).tokenize()
Tokenize(s, checks) == TokenizeFrom(s, 0, 0, <<>>, checks)

----------------------------------------------------------------------------
(* The texts the model is run on *)

Texts(A, n) == UNION {[1..k -> A] : k \in 0..n}

Alphabet == {"1", "i", "f", "X", " ", "=", "<", ">", "&", "|", "+", "\t"}
DigitAlphabet == {"0", "9"}
NameAlphabet == {"e", "l", "s", "y"}
EqAlphabet == {"=", "x"}

Inputs ==
    Texts(Alphabet, MaxLen) \cup Texts(DigitAlphabet, MaxDigits)
        \cup Texts(NameAlphabet, MaxName) \cup Texts(EqAlphabet, MaxEq)
        \cup {<<"2", "1", "4", "7", "4", "8", "3", "6", "4", "7">>,
              <<"2", "1", "4", "7", "4", "8", "3", "6", "4", "8">>}

----------------------------------------------------------------------------
(* The state machine: Lexer::new, then the loop of tokenize, one step per *)
(* invocation of next_token                                               *)

\* Lexer::new counting positions from one
InitOneBased ==
    /\ source \in Inputs
    /\ overflow_checks \in BOOLEAN
    /\ iter = 0
    /\ position = 1
    /\ tokens = <<>>
    /\ spans = <<>>
    /\ calls = 0
    /\ pc = "run"

Init ==
    /\ source \in Inputs
    /\ overflow_checks \in BOOLEAN
    /\ iter = 0
    /\ position = 0
    /\ tokens = <<>>
    /\ spans = <<>>
    /\ calls = 0
    /\ pc = "run"

\* the effect of one invocation of next_token on the lexer and on the loop of tokenize
Commit(r) ==
    /\ iter' = r.iter
    /\ position' = r.position
    /\ calls' = calls + 1
    /\ tokens' = IF r.ret = "Some" THEN Append(tokens, r.tok) ELSE tokens
    /\ spans' = IF r.ret = "Some" THEN Append(spans, <<iter, r.iter>>) ELSE spans
    /\ pc' = CASE r.ret \in {"Some", "Recurse"} -> "run"
               [] r.ret = "None" -> "done"
               [] r.ret = "Panic" -> "panic"
    /\ UNCHANGED <<source, overflow_checks>>

\* whether the character the next invocation of next_token consumes is in C
FirstIn(C) == CharsNext(source, iter).some /\ CharsNext(source, iter).ch \in C

NextNumber ==
    /\ pc = "run"
    /\ FirstIn(Digit)
    /\ Commit(next_token(source, iter, position, overflow_checks))
NextName ==
    /\ pc = "run"
    /\ FirstIn(Lower)
    /\ Commit(next_token(source, iter, position, overflow_checks))
NextSingle ==
    /\ pc = "run"
    /\ FirstIn(Single)
    /\ Commit(next_token(source, iter, position, overflow_checks))
NextSpace ==
    /\ pc = "run"
    /\ FirstIn({" "})
    /\ Commit(next_token(source, iter, position, overflow_checks))
NextAssign ==
    /\ pc = "run"
    /\ FirstIn({"="})
    /\ Commit(next_token(source, iter, position, overflow_checks))
NextSmaller ==
    /\ pc = "run"
    /\ FirstIn({"<"})
    /\ Commit(next_token(source, iter, position, overflow_checks))
NextGreater ==
    /\ pc = "run"
    /\ FirstIn({">"})
    /\ Commit(next_token(source, iter, position, overflow_checks))
NextAnd ==
    /\ pc = "run"
    /\ FirstIn({"&"})
    /\ Commit(next_token(source, iter, position, overflow_checks))
NextOr ==
    /\ pc = "run"
    /\ FirstIn({"|"})
    /\ Commit(next_token(source, iter, position, overflow_checks))
NextOther ==
    /\ pc = "run"
    /\ CharsNext(source, iter).some
    /\ CharsNext(source, iter).ch \notin Known
    /\ Commit(next_token(source, iter, position, overflow_checks))
\* self.input.next() is None: next_token returns None and tokenize returns
NextEnd ==
    /\ pc = "run"
    /\ ~CharsNext(source, iter).some
    /\ Commit(next_token(source, iter, position, overflow_checks))

Next ==
    \/ NextNumber
    \/ NextName
    \/ NextSingle
    \/ NextSpace
    \/ NextAssign
    \/ NextSmaller
    \/ NextGreater
    \/ NextAnd
    \/ NextOr
    \/ NextOther
    \/ NextEnd

Spec == Init /\ [][Next]_vars

----------------------------------------------------------------------------
(* Decimal numerals, for stating what value a text of digits denotes      *)
(* without computing a value beyond i32                                    *)

\* s is a non-empty text of digits
AllDigits(s) == Len(s) > 0 /\ \A k \in 1..Len(s) : s[k] \in Digit

\* s without its leading zeros (the numeral 0 for a text of zeros)
StripZeros(s) ==
    LET nz == {k \in 1..Len(s) : s[k] # "0"}
    IN  IF nz = {} THEN <<"0">>
        ELSE SubSeq(s, CHOOSE k \in nz : \A j \in nz : k <= j, Len(s))

RECURSIVE Decimal(_)
\* the decimal numeral of v >= 0
Decimal(v) ==
    IF v < 10 THEN <<DigitChars[v + 1]>>
    ELSE Append(Decimal(v \div 10), DigitChars[(v % 10) + 1])

\* v is the decimal value of the text of digits s
IsValueOf(v, s) == v >= 0 /\ Decimal(v) = StripZeros(s)

\* the decimal value of the text of digits s is at most i32::MAX
FitsI32(s) ==
    LET d == StripZeros(s)
        m == Decimal(I32Max)
    IN  \/ Len(d) < Len(m)
        \/ /\ Len(d) = Len(m)
           /\ ~\E k \in 1..Len(d) :
                 /\ \A j \in 1..(k - 1) : d[j] = m[j]
                 /\ to_digit(d[k]) > to_digit(m[k])

\* tokenize returned exactly one token, the Number of the value of the source
OneNumberOfSource ==
    /\ pc = "done"
    /\ Len(tokens) = 1
    /\ tokens[1].type = "Number"
    /\ IsValueOf(tokens[1].value, source)

----------------------------------------------------------------------------
(* C1 *)

\* C1 as stated: for every non-empty text of digits, of any length, tokenize
\* returns exactly one token, the Number of the decimal value of the text.
C1_AnyLength ==
    (AllDigits(source) /\ pc # "run") => OneNumberOfSource

\* C1, amended: for every non-empty text of digits whose decimal value is at
\* most i32::MAX (leading zeros included), tokenize returns exactly one token,
\* the Number of the decimal value of the text.
C1_WithinI32 ==
    (AllDigits(source) /\ FitsI32(source) /\ pc # "run") => OneNumberOfSource

\* the text 2147483647 was tokenized, in the build that checks overflow
C1_Witness ==
    /\ pc = "done"
    /\ overflow_checks
    /\ AllDigits(source)
    /\ tokens = <<Number(I32Max)>>

----------------------------------------------------------------------------
(* C2 *)

\* the last index of the maximal run of alphanumeric characters of s that starts at b
RunEnd(s, b) ==
    CHOOSE e \in b..Len(s) :
        /\ \A j \in b..e : is_alphanumeric(s[j])
        /\ e = Len(s) \/ ~is_alphanumeric(s[e + 1])

\* the token the claim gives to a name
TokenOfName(name) ==
    CASE name = <<"i", "f">> -> Plain("If")
      [] name = <<"e", "l", "s", "e">> -> Plain("Else")
      [] OTHER -> Id(name)

\* C2: every token that starts with a lowercase letter covers the whole
\* maximal alphanumeric run that starts there, and is If exactly when that run
\* is "if", Else exactly when it is "else", and otherwise Id of the whole run.
C2_KeywordOnWholeName ==
    \A k \in 1..Len(tokens) :
        LET b == spans[k][1] + 1
            e == RunEnd(source, b)
            name == SubSeq(source, b, e)
        IN  source[b] \in Lower =>
                /\ spans[k][2] = e
                /\ tokens[k] = TokenOfName(name)
                /\ (tokens[k].type = "If") <=> (name = <<"i", "f">>)
                /\ (tokens[k].type = "Else") <=> (name = <<"e", "l", "s", "e">>)

\* "elsey" was tokenized as one identifier
C2_Witness ==
    /\ pc = "done"
    /\ tokens = <<Id(<<"e", "l", "s", "e", "y">>)>>

----------------------------------------------------------------------------
(* C3 *)

\* the maximal runs of '=' of s, as <<first index, last index>>
EqRuns(s) ==
    {r \in (1..Len(s)) \X (1..Len(s)) :
        /\ r[1] <= r[2]
        /\ \A j \in r[1]..r[2] : s[j] = "="
        /\ r[1] = 1 \/ s[r[1] - 1] # "="
        /\ r[2] = Len(s) \/ s[r[2] + 1] # "="}

\* the tokens pushed whose characters all lie in b..e, in order
TokensWithin(b, e) ==
    LET K == {k \in 1..Len(tokens) : spans[k][1] + 1 >= b /\ spans[k][2] <= e}
        first == CHOOSE k \in K : \A j \in K : k <= j
    IN  [j \in 1..Cardinality(K) |-> tokens[first + j - 1]]

\* floor(n/2) Equals, then one Assign when n is odd
Paired(n) ==
    [j \in 1..((n + 1) \div 2) |->
        IF j <= n \div 2 THEN Plain("Equals") ELSE Plain("Assign")]

\* C3 as stated: once the scan is past a maximal run of n '=', the tokens of
\* the run are floor(n/2) Equals followed by one Assign exactly when n is odd.
C3_EveryRun ==
    \A r \in EqRuns(source) :
        iter >= r[2] => TokensWithin(r[1], r[2]) = Paired(r[2] - r[1] + 1)

\* C3, amended: the same for a maximal run of '=' that is not immediately
\* preceded by '<' or '>' (which takes the first '=' of the run into
\* SmallerEquals or GreaterEquals).
C3_RunAtTokenStart ==
    \A r \in EqRuns(source) :
        (iter >= r[2] /\ (r[1] = 1 \/ source[r[1] - 1] \notin {"<", ">"}))
            => TokensWithin(r[1], r[2]) = Paired(r[2] - r[1] + 1)

\* a run of five '=' was tokenized
C3_Witness ==
    /\ pc = "done"
    /\ source = <<"=", "=", "=", "=", "=">>
    /\ tokens = <<Plain("Equals"), Plain("Equals"), Plain("Assign")>>

----------------------------------------------------------------------------
(* C4 *)

\* the character next_token is about to consume, and the one after it ("" past the end)
First == IF iter + 1 <= Len(source) THEN source[iter + 1] ELSE ""
Second == IF iter + 2 <= Len(source) THEN source[iter + 2] ELSE ""

\* this step pushes the token t and consumes n characters
Emits(t, n) ==
    /\ tokens' = Append(tokens, Plain(t))
    /\ iter' = iter + n
    /\ pc' = "run"

\* this step pushes t, consumes the first character only, and leaves the
\* peeked character as the one the next call of next_token starts with
EmitsKeepingPeeked(t) ==
    /\ Emits(t, 1)
    /\ Second # "" => CharsNext(source, iter').ch = Second

C4_Step ==
    pc = "run" =>
        /\ (First = "<" /\ Second = "=") => Emits("SmallerEquals", 2)
        /\ (First = ">" /\ Second = "=") => Emits("GreaterEquals", 2)
        /\ (First = "&" /\ Second = "&") => Emits("And", 2)
        /\ (First = "|" /\ Second = "|") => Emits("Or", 2)
        /\ (First = "<" /\ Second # "=") => EmitsKeepingPeeked("SmallerThan")
        /\ (First = ">" /\ Second # "=") => EmitsKeepingPeeked("GreaterThan")

\* C4: at a token start, "<=", ">=", "&&" and "||" give SmallerEquals,
\* GreaterEquals, And and Or and consume two characters; '<' or '>' followed by
\* anything else, or by the end of the text, gives SmallerThan or GreaterThan,
\* consumes one character, and the next token starts at the peeked character.
C4_TwoCharacterOperators == [][C4_Step]_vars

\* "<=" then '<' followed by the end of the text were tokenized
C4_Witness ==
    /\ pc = "done"
    /\ source = <<"<", "=", "<">>
    /\ tokens = <<Plain("SmallerEquals"), Plain("SmallerThan")>>

----------------------------------------------------------------------------
(* C5 *)

\* the character next_token is about to consume starts no token
AtNoTokenStart ==
    /\ iter < Len(source)
    /\ \/ First \in Upper \cup {"\t", "\n"}
       \/ First \notin Known
       \/ First = "&" /\ Second # "&"
       \/ First = "|" /\ Second # "|"

C5_Step ==
    /\ (pc = "run" /\ AtNoTokenStart) =>
           /\ pc' = "done"
           /\ tokens' = tokens
           /\ Tokenize(SubSeq(source, 1, iter), overflow_checks)
                  = [pc |-> "done", tokens |-> tokens']
    /\ pc = "done" => UNCHANGED vars

\* C5: on reaching a character that starts no token, tokenize returns the
\* tokens pushed so far, which are those of the text cut off just before that
\* character, and nothing is pushed after tokenize has returned.
C5_SilentStop == [][C5_Step]_vars

\* the scan of "1X+" stopped at 'X' with the '+' unread
C5_Witness ==
    /\ pc = "done"
    /\ source = <<"1", "X", "+">>
    /\ iter = 2
    /\ tokens = <<Number(1)>>

----------------------------------------------------------------------------
(* C6 *)

\* s with n spaces inserted after its first k characters
WithSpaces(s, k, n) ==
    SubSeq(s, 1, k) \o [j \in 1..n |-> " "] \o SubSeq(s, k + 1, Len(s))

\* the places of the source at its start, at its end, or between two
\* consecutive tokens (after k characters)
Boundaries ==
    {k \in 0..Len(source) :
        \/ k = 0
        \/ k = Len(source)
        \/ \E j \in 1..(Len(tokens) - 1) : spans[j][2] <= k /\ k <= spans[j + 1][1]}

\* C6: no token covers a space, and once tokenize has ended, tokenizing the
\* source with one or more spaces inserted at its start, at its end or between
\* two consecutive tokens ends the same way with the same tokens.
C6_SpaceInsensitive ==
    /\ \A k \in 1..Len(tokens) :
           \A j \in (spans[k][1] + 1)..spans[k][2] : source[j] # " "
    /\ pc # "run" =>
           \A k \in Boundaries : \A n \in 1..MaxSpaces :
               LET r == Tokenize(WithSpaces(source, k, n), overflow_checks)
               IN  /\ r.pc = pc
                   /\ pc = "done" => r.tokens = tokens

\* two tokens with no space between them were returned
C6_Witness ==
    /\ pc = "done"
    /\ Len(tokens) = 2
    /\ spans[1][2] = spans[2][1]

----------------------------------------------------------------------------
(* C7 *)

\* every step is one more invocation of next_token, and one made while a
\* character is available consumes at least one character
C7_Step ==
    /\ calls' = calls + 1
    /\ (pc = "run" /\ iter < Len(source)) => iter' > iter

\* while the loop runs, every invocation so far has consumed a character of
\* the text; the invocations never exceed the length of the text plus one
C7_Bounded ==
    /\ calls <= Len(source) + 1
    /\ pc = "run" => (calls <= iter /\ iter <= Len(source))

\* C7: tokenize ends on every text: every invocation of next_token made while
\* a character is available consumes at least one, and the loop ends after at
\* most as many invocations as the text has characters plus one.
C7_Terminates == []C7_Bounded /\ [][C7_Step]_vars

\* a text of three characters, one of them a skipped space, took four invocations
C7_Witness ==
    /\ pc = "done"
    /\ source = <<"1", " ", "+">>
    /\ calls = Len(source) + 1

----------------------------------------------------------------------------
(* C8 *)

\* C8 as stated: the position field equals the number of characters consumed
\* from the source so far.
C8_PositionCountsConsumed == position = iter

----------------------------------------------------------------------------
(* C9 *)

\* a peek at any point of the source returns the character the next consume returns
PeekAgrees ==
    \A it \in 0..Len(source) :
        LET la == lookahead(source, it)
            nx == CharsNext(source, it)
        IN  la.some = nx.some /\ la.ch = nx.ch

\* the cursor never moves back, and position moves only when a character is consumed
C9_Step ==
    /\ iter' >= iter
    /\ position' >= position
    /\ position' # position => iter' > iter

\* an arm that peeked and did not match leaves the peeked character unread
C9_PeekLeaves ==
    (pc = "run" /\ First \in {"=", "<", ">", "&", "|"} /\ Second # "" /\ Second # "=" /\ Second # First)
        => (iter' = iter + 1 /\ CharsNext(source, iter').ch = Second)

\* C9: the cursor is non-decreasing over the scanning steps, only a consume
\* moves it, and a peek changes nothing: it returns the character the next
\* consume returns.
C9_PeekAndCursor == []PeekAgrees /\ [][C9_Step /\ C9_PeekLeaves]_vars

\* '<' was tokenized after a peek at the '1' that follows, which is still unread
C9_Witness ==
    /\ pc = "run"
    /\ source = <<"<", "1">>
    /\ tokens = <<Plain("SmallerThan")>>
    /\ iter = 1

----------------------------------------------------------------------------
(* C10 *)

\* C10 (two fresh tokenizers on the same text return the same tokens) relates
\* two behaviours. Here next_token is an operator of the text, the iterator
\* offset and the build, so the two results are the same expression: no
\* formula over one behaviour of this machine can tell a deterministic
\* tokenizer from another, and none is stated.

----------------------------------------------------------------------------
(* C11 *)

\* C11: Lexer::new accepts every text (the lexer starts at the beginning of
\* it with nothing consumed, whatever the text), and tokenize of the empty
\* text returns no token and consumes nothing.
C11_EmptyText ==
    /\ calls = 0 => (pc = "run" /\ iter = 0 /\ position = 0 /\ tokens = <<>>)
    /\ source = <<>> =>
           /\ iter = 0 /\ position = 0 /\ tokens = <<>>
           /\ pc \in {"run", "done"}
           /\ calls = 1 => pc = "done"
           /\ calls <= 1

\* tokenize of the empty text has returned after one invocation of next_token
C11_Witness ==
    /\ source = <<>>
    /\ pc = "done"
    /\ calls = 1
    /\ tokens = <<>>

----------------------------------------------------------------------------
(* C12 *)

\* C12: the name of every Id token is the text of its span, begins with a
\* lowercase letter, continues with alphanumeric characters only (uppercase
\* letters and digits included), and is not followed in the source by an
\* alphanumeric character; so no Number token starts right after an Id.
C12_IdIsMaximal ==
    \A k \in 1..Len(tokens) :
        tokens[k].type = "Id" =>
            LET b == spans[k][1] + 1
                e == spans[k][2]
                name == tokens[k].name
            IN  /\ b <= e
                /\ name = SubSeq(source, b, e)
                /\ name[1] \in Lower
                /\ \A j \in 2..Len(name) : name[j] \in Lower \cup Upper \cup Digit
                /\ e < Len(source) => source[e + 1] \notin Lower \cup Upper \cup Digit
                /\ \A n \in 1..Len(tokens) :
                       (tokens[n].type = "Number" /\ n > k) => spans[n][1] > e

\* a lowercase letter, an uppercase letter and a digit were tokenized as one identifier
C12_Witness ==
    /\ pc = "done"
    /\ tokens = <<Id(<<"i", "X", "1">>)>>

----------------------------------------------------------------------------
(* C13 *)

\* the spans sp partition the non-space characters of the source: every span
\* is a non-empty stretch of the source, the spans follow one another from
\* left to right without overlap, and every non-space character lies in
\* exactly one of them
Partitions(sp) ==
    /\ \A k \in 1..Len(sp) : 0 <= sp[k][1] /\ sp[k][1] < sp[k][2] /\ sp[k][2] <= Len(source)
    /\ \A k \in 1..(Len(sp) - 1) : sp[k][2] <= sp[k + 1][1]
    /\ \A j \in 1..Len(source) :
           source[j] # " " =>
               Cardinality({k \in 1..Len(sp) : sp[k][1] < j /\ j <= sp[k][2]}) = 1

\* the whole source is consumed and the tokens pushed partition its non-space characters
WholeSourceTokenized ==
    /\ iter' = Len(source)
    /\ Len(spans') = Len(tokens')
    /\ Partitions(spans')

\* C13 as stated: when tokenize stops at anything but a character that starts
\* no token, the whole source is consumed and the tokens partition its
\* non-space characters in source order.
C13_AnyStop ==
    [][(pc = "run" /\ pc' # "run" /\ ~AtNoTokenStart) => WholeSourceTokenized]_vars

\* What does hold: when tokenize returns at anything but a character that
\* starts no token, the whole source is consumed and the tokens partition its
\* non-space characters in source order. The stop that breaks C13 is the
\* panic of a digit run beyond i32::MAX in a build that checks overflow.
C13_OnReturn ==
    [][(pc = "run" /\ pc' = "done" /\ ~AtNoTokenStart) => WholeSourceTokenized]_vars

\* a text with a space between its two tokens was tokenized to its end
C13_Returned ==
    /\ pc = "done"
    /\ source = <<"i", " ", "<">>
    /\ iter = Len(source)
    /\ spans = <<<<0, 1>>, <<2, 3>>>>

=============================================================================
